---- MODULE Spec2Model ----
(***************************************************************************)
(* Model of the 3x3x3 cube engine of 6gdfg/cube: the move table            *)
(* (types.ts), the application queue (App.tsx) and the two Cube3D          *)
(* components: components/Cube3D.tsx (3D-normal drag resolver, affected    *)
(* ids snapshotted at move start) and the second Cube3D (screen-space      *)
(* resolver, slice recomputed at finishMove).                              *)
(*                                                                         *)
(* React keeps a state value and the value the last render handed to the   *)
(* closures: cubies / moveQueue are the state values (every queued updater *)
(* applied), rCubies / rQueue are what the useFrame callback and the       *)
(* pointer handlers of the last render of Cube3D read.                     *)
(***************************************************************************)
EXTENDS Integers, Sequences, FiniteSets, TLC

VARIABLES
  variant,        \* which Cube3D component is mounted
  cubies,         \* Cube3D state: the 27 cubies (latest state value)
  rCubies,        \* cubies as captured by the closures of the last render
  moveQueue,      \* App state: the move queue (latest state value)
  rQueue,         \* the moveQueue prop captured by the last render of Cube3D
  orbitEnabled,   \* App state
  isAnimating,    \* ref
  currentMove,    \* ref
  moveProgress,   \* ref
  activeCubieIds, \* ref (components/Cube3D.tsx only)
  isDragging,     \* ref (components/Cube3D.tsx only)
  dragStart,      \* ref (components/Cube3D.tsx only)
  dragRef,        \* ref (second Cube3D only)
  mounted,        \* the mount effect of App has run
  appended,       \* history: every value appended to the queue, in order
  committed,      \* history: the move of every completed turn, in order
  staleTicks,     \* number of frames run since a re-render became pending
  turnStart,      \* history: the stores as they were when the running turn started
  scrambleCall    \* the running call of scramble(): its position and its locals

vars == <<variant, cubies, rCubies, moveQueue, rQueue, orbitEnabled, isAnimating,
          currentMove, moveProgress, activeCubieIds, isDragging, dragStart,
          dragRef, mounted, appended, committed, staleTicks, turnStart, scrambleCall>>

animVars == <<isAnimating, currentMove, moveProgress, activeCubieIds>>
dragVars == <<isDragging, dragStart, dragRef>>
histVars == <<appended, committed, turnStart>>

\* no call of scramble() is running
NoCall == [pc |-> "idle", i |-> 0, key |-> "", lastAxis |-> "", newMoves |-> <<>>]

-----------------------------------------------------------------------------
(* Bounds of the model *)

\* total number of values appended to the queue in one behaviour
MaxAppended == 2
\* moves drawn by one scramble call (the shipped loop draws 20)
ScrambleLen == 1
\* frames that can run while one re-render of Cube3D is pending
MaxStaleTicks == 1
\* values appended after the mount scramble, in a behaviour that starts from it
MaxManual == 1

-----------------------------------------------------------------------------
(* types.ts *)

Axes == {"x", "y", "z"}

\* the table with the entry of U2 given the direction of U1
MovesU2AsU1 ==
  [ U1 |-> [axis |-> "y", slice |->  1, direction |-> -1, name |-> "U"],
    U2 |-> [axis |-> "y", slice |->  1, direction |-> -1, name |-> "U'"],
    D1 |-> [axis |-> "y", slice |-> -1, direction |->  1, name |-> "D"],
    D2 |-> [axis |-> "y", slice |-> -1, direction |-> -1, name |-> "D'"],
    L1 |-> [axis |-> "x", slice |-> -1, direction |->  1, name |-> "L"],
    L2 |-> [axis |-> "x", slice |-> -1, direction |-> -1, name |-> "L'"],
    R1 |-> [axis |-> "x", slice |->  1, direction |-> -1, name |-> "R"],
    R2 |-> [axis |-> "x", slice |->  1, direction |->  1, name |-> "R'"],
    F1 |-> [axis |-> "z", slice |->  1, direction |-> -1, name |-> "F"],
    F2 |-> [axis |-> "z", slice |->  1, direction |->  1, name |-> "F'"],
    B1 |-> [axis |-> "z", slice |-> -1, direction |->  1, name |-> "B"],
    B2 |-> [axis |-> "z", slice |-> -1, direction |-> -1, name |-> "B'"] ]

MOVES ==
  [ U1 |-> [axis |-> "y", slice |->  1, direction |-> -1, name |-> "U"],
    U2 |-> [axis |-> "y", slice |->  1, direction |->  1, name |-> "U'"],
    D1 |-> [axis |-> "y", slice |-> -1, direction |->  1, name |-> "D"],
    D2 |-> [axis |-> "y", slice |-> -1, direction |-> -1, name |-> "D'"],
    L1 |-> [axis |-> "x", slice |-> -1, direction |->  1, name |-> "L"],
    L2 |-> [axis |-> "x", slice |-> -1, direction |-> -1, name |-> "L'"],
    R1 |-> [axis |-> "x", slice |->  1, direction |-> -1, name |-> "R"],
    R2 |-> [axis |-> "x", slice |->  1, direction |->  1, name |-> "R'"],
    F1 |-> [axis |-> "z", slice |->  1, direction |-> -1, name |-> "F"],
    F2 |-> [axis |-> "z", slice |->  1, direction |->  1, name |-> "F'"],
    B1 |-> [axis |-> "z", slice |-> -1, direction |->  1, name |-> "B"],
    B2 |-> [axis |-> "z", slice |-> -1, direction |-> -1, name |-> "B'"] ]

\* Object.keys(MOVES) / Object.entries(MOVES): own keys in insertion order
MoveKeys == <<"U1", "U2", "D1", "D2", "L1", "L2", "R1", "R2", "F1", "F2", "B1", "B2">>

OwnKeys == {MoveKeys[i] : i \in 1..Len(MoveKeys)}

TableMoves == {MOVES[k] : k \in OwnKeys}

\* the null of currentMove.current
NullMove == [axis |-> "null", slice |-> 0, direction |-> 0, name |-> "null"]

-----------------------------------------------------------------------------
(* Numbers of the form (a + b*sqrt(2))/2, written <<a, b>>: the components   *)
(* of every product of quarter-turn quaternions are of this form, so the     *)
(* quaternion algebra of THREE is computed exactly.                          *)

Num(a, b) == <<a, b>>
Zero == Num(0, 0)
One == Num(2, 0)
\* sin(PI/4) = cos(PI/4) = sqrt(2)/2
HalfSqrt2 == Num(0, 1)

Neg(p) == <<-p[1], -p[2]>>
FromInt(n) == <<2 * n, 0>>

\* a product, in quarters: (a1 + b1 r)(a2 + b2 r)/4 with r*r = 2
MulQ(p, q) == <<p[1] * q[1] + 2 * p[2] * q[2], p[1] * q[2] + p[2] * q[1]>>
Add4(p, q, r, s) == <<p[1] + q[1] + r[1] + s[1], p[2] + q[2] + r[2] + s[2]>>
\* from quarters back to halves
Halve(p) == <<p[1] \div 2, p[2] \div 2>>

\* Math.round: the nearest integer, halves towards +Infinity (sqrt(2) ~ 1.41421)
MathRound(p) == (p[1] * 100000 + p[2] * 141421 + 100000) \div 200000

\* new THREE.Quaternion()
IdentityQuaternion == [x |-> Zero, y |-> Zero, z |-> Zero, w |-> One]

\* Quaternion.multiplyQuaternions(a, b)
MultiplyQuaternions(a, b) ==
  [ x |-> Halve(Add4(MulQ(a.x, b.w), MulQ(a.w, b.x), MulQ(a.y, b.z), Neg(MulQ(a.z, b.y)))),
    y |-> Halve(Add4(MulQ(a.y, b.w), MulQ(a.w, b.y), MulQ(a.z, b.x), Neg(MulQ(a.x, b.z)))),
    z |-> Halve(Add4(MulQ(a.z, b.w), MulQ(a.w, b.z), MulQ(a.x, b.y), Neg(MulQ(a.y, b.x)))),
    w |-> Halve(Add4(MulQ(a.w, b.w), Neg(MulQ(a.x, b.x)), Neg(MulQ(a.y, b.y)), Neg(MulQ(a.z, b.z)))) ]

\* q.copy(r) in the place of q.premultiply(r)
PremultiplyOverwrite(q, r) == r

\* q.premultiply(r): q becomes r * q
Premultiply(q, r) == MultiplyQuaternions(r, q)

Conjugate(q) == [x |-> Neg(q.x), y |-> Neg(q.y), z |-> Neg(q.z), w |-> q.w]

\* new THREE.Vector3(axis === 'x' ? 1 : 0, axis === 'y' ? 1 : 0, axis === 'z' ? 1 : 0)
AxisVec(axis) ==
  [x |-> IF axis = "x" THEN 1 ELSE 0,
   y |-> IF axis = "y" THEN 1 ELSE 0,
   z |-> IF axis = "z" THEN 1 ELSE 0]

\* the sine with the sign of the direction dropped
SinHalfTurnUnsigned(direction) == HalfSqrt2

\* sin of half the quarter-turn angle (PI/2) * direction
SinHalfTurn(direction) == IF direction > 0 THEN HalfSqrt2 ELSE Neg(HalfSqrt2)

\* setFromAxisAngle(axisVec, (Math.PI / 2) * direction), direction = +1 or -1
QuarterTurn(axis, direction) ==
  LET s == SinHalfTurn(direction)
      a == AxisVec(axis)
  IN [x |-> IF a.x = 1 THEN s ELSE Zero,
      y |-> IF a.y = 1 THEN s ELSE Zero,
      z |-> IF a.z = 1 THEN s ELSE Zero,
      w |-> HalfSqrt2]

\* v.applyQuaternion(q): q * v * q^-1 for a unit quaternion
ApplyQuaternion(v, q) ==
  LET p == [x |-> FromInt(v.x), y |-> FromInt(v.y), z |-> FromInt(v.z), w |-> Zero]
      r == MultiplyQuaternions(MultiplyQuaternions(q, p), Conjugate(q))
  IN [x |-> r.x, y |-> r.y, z |-> r.z]

\* the position turned the other way round: applyQuaternion with the inverse
RotatePositionInverse(v, q) ==
  LET r == ApplyQuaternion(v, Conjugate(q))
  IN [x |-> MathRound(r.x), y |-> MathRound(r.y), z |-> MathRound(r.z)]

\* newPos.x = Math.round(newPos.x), ... after applyQuaternion
RotatePosition(v, q) ==
  LET r == ApplyQuaternion(v, q)
  IN [x |-> MathRound(r.x), y |-> MathRound(r.y), z |-> MathRound(r.z)]

-----------------------------------------------------------------------------
(* Cubie store *)

\* the nested x, y, z loops of the useState initializer, id++ on every push
RECURSIVE InitLoop(_, _, _, _)
InitLoop(x, y, z, init) ==
  IF x > 1 THEN init
  ELSE IF y > 1 THEN InitLoop(x + 1, -1, -1, init)
  ELSE IF z > 1 THEN InitLoop(x, y + 1, -1, init)
  ELSE InitLoop(x, y, z + 1,
         Append(init, [id |-> Len(init),
                       position |-> [x |-> x, y |-> y, z |-> z],
                       rotation |-> IdentityQuaternion]))

InitialCubies == InitLoop(-1, -1, -1, <<>>)

\* the points the three loops run over
Lattice == [x : {-1, 0, 1}, y : {-1, 0, 1}, z : {-1, 0, 1}]

\* the initial coordinates recovered from the id:
\* iz = id % 3 - 1, iy = Math.floor((id % 9) / 3) - 1, ix = Math.floor(id / 9) - 1
DecodeId(id) ==
  [x |-> (id \div 9) - 1, y |-> ((id % 9) \div 3) - 1, z |-> (id % 3) - 1]

\* the material of each face chosen from the current position
MaterialsFromPosition(cubie) ==
  << IF cubie.position.x = 1 THEN "right" ELSE "core",
     IF cubie.position.x = -1 THEN "left" ELSE "core",
     IF cubie.position.y = 1 THEN "top" ELSE "core",
     IF cubie.position.y = -1 THEN "bottom" ELSE "core",
     IF cubie.position.z = 1 THEN "front" ELSE "core",
     IF cubie.position.z = -1 THEN "back" ELSE "core" >>

\* myMaterials: right, left, top, bottom, front, back
Materials(cubie) ==
  << IF DecodeId(cubie.id).x = 1 THEN "right" ELSE "core",
     IF DecodeId(cubie.id).x = -1 THEN "left" ELSE "core",
     IF DecodeId(cubie.id).y = 1 THEN "top" ELSE "core",
     IF DecodeId(cubie.id).y = -1 THEN "bottom" ELSE "core",
     IF DecodeId(cubie.id).z = 1 THEN "front" ELSE "core",
     IF DecodeId(cubie.id).z = -1 THEN "back" ELSE "core" >>

\* pos[axis]
Coord(pos, axis) == IF axis = "x" THEN pos.x ELSE IF axis = "y" THEN pos.y ELSE pos.z

\* the slice test with a tolerance of 1.1: the middle layer passes as well
IsInSliceWide(pos, axis, sliceVal) ==
  /\ axis \in Axes
  /\ 10 * (IF Coord(pos, axis) >= sliceVal THEN Coord(pos, axis) - sliceVal
           ELSE sliceVal - Coord(pos, axis)) < 11

\* Math.abs(pos[axis] - sliceVal) < 0.1 on integer coordinates, false for any other axis
IsInSlice(pos, axis, sliceVal) ==
  /\ axis \in Axes
  /\ 10 * (IF Coord(pos, axis) >= sliceVal THEN Coord(pos, axis) - sliceVal
           ELSE sliceVal - Coord(pos, axis)) < 1

\* cubies.filter(c => in slice).map(c => c.id), as a set of ids
SliceIds(cs, move) ==
  {cs[i].id : i \in {j \in 1..Len(cs) : IsInSlice(cs[j].position, move.axis, move.slice)}}

\* the body of the setCubies updater for one affected cubie
TurnCubie(c, move) ==
  LET q == QuarterTurn(move.axis, move.direction)
  IN [id |-> c.id,
      position |-> RotatePosition(c.position, q),
      rotation |-> Premultiply(c.rotation, q)]

\* components/Cube3D.tsx: prev.map(c => activeCubieIds.current.includes(c.id) ? turned : c)
CommitByIds(prev, ids, move) ==
  [i \in 1..Len(prev) |-> IF prev[i].id \in ids THEN TurnCubie(prev[i], move) ELSE prev[i]]

\* second Cube3D, finishMove: prev.map(c => isInSlice(c.position, ...) ? turned : c)
CommitBySlice(prev, move) ==
  [i \in 1..Len(prev) |->
     IF IsInSlice(prev[i].position, move.axis, move.slice)
     THEN TurnCubie(prev[i], move) ELSE prev[i]]

-----------------------------------------------------------------------------
(* App.tsx: the queue *)

\* names every object inherits from Object.prototype: MOVES[key] finds them
ObjectPrototypeKeys ==
  {"constructor", "toString", "toLocaleString", "valueOf", "hasOwnProperty",
   "isPrototypeOf", "propertyIsEnumerable", "__proto__"}

\* an inherited property value: an object with no axis, slice or direction
InheritedValue(key) == [axis |-> "undefined", slice |-> 0, direction |-> 0, name |-> key]

Undefined == [axis |-> "undefined", slice |-> 0, direction |-> 0, name |-> "undefined"]

\* const move = MOVES[moveKey]
Lookup(moveKey) ==
  IF moveKey \in OwnKeys THEN MOVES[moveKey]
  ELSE IF moveKey \in ObjectPrototypeKeys THEN InheritedValue(moveKey)
  ELSE Undefined

\* if (move): every object and function is truthy, undefined is not
Truthy(move) == move # Undefined

\* handleMove: the queue after setMoveQueue(prev => [...prev, move]), if (move)
HandleMoveQueue(prev, moveKey) ==
  IF Truthy(Lookup(moveKey)) THEN Append(prev, Lookup(moveKey)) ELSE prev

\* handleMoveComplete: prev.slice(1)
Slice1(prev) == IF Len(prev) = 0 THEN prev ELSE Tail(prev)

\* the for loop of scramble from iteration i on: every newMoves it can end with.
\* the keys keys[randInt(0, keys.length - 1)] yields in the behaviours explored:
\* one turn of every face
RandomKeys == {k \in OwnKeys : k \in {"U1", "D2", "L1", "R2", "F1", "B2"}}

\* The while loop redraws until move.axis differs from lastAxis.
RECURSIVE ScrambleLoop(_, _, _, _)
ScrambleLoop(i, n, lastAxis, newMoves) ==
  IF i >= n THEN {newMoves}
  ELSE UNION { ScrambleLoop(i + 1, n, MOVES[key].axis, Append(newMoves, MOVES[key])) :
                 key \in {k \in RandomKeys : MOVES[k].axis # lastAxis} }

\* let lastAxis = ''; const newMoves = []
ScrambleOutcomes(n) == ScrambleLoop(0, n, "", <<>>)

\* for (let i = 0; i < 20; i++)
ScrambleCount == 20

\* the number of values one behaviour appends: MaxAppended, or the 20 moves of
\* the mount scramble and MaxManual more
AppendLimit ==
  IF Len(appended) >= ScrambleCount THEN ScrambleCount + MaxManual ELSE MaxAppended

\* Controls: disabled = moveQueue.length > 5, from the queue App last rendered
InputDepthLimit == 5
ControlsDisabled == Len(rQueue) > InputDepthLimit

\* the keys wired to the buttons of Controls
GROUPS ==
  { [cw |-> "F1", ccw |-> "F2"], [cw |-> "B1", ccw |-> "B2"], [cw |-> "U1", ccw |-> "U2"],
    [cw |-> "D1", ccw |-> "D2"], [cw |-> "L1", ccw |-> "L2"], [cw |-> "R1", ccw |-> "R2"] }

ButtonKeys == {g.cw : g \in GROUPS} \cup {g.ccw : g \in GROUPS}

\* the buttons clicked in the behaviours explored: the opposite turn of every face
ClickedKeys == {k \in ButtonKeys : k \in {"U2", "D1", "L2", "R1", "F2", "B1"}}

-----------------------------------------------------------------------------
(* Initial state: App and Cube3D constructed, nothing rendered twice yet *)

Variants == {"Cube3D", "Cube3DScreen"}

NoDrag == [cubieId |-> -1]

\* no turn is running
NoTurn == [queue |-> <<>>, appended |-> -1, slice |-> {}]

Init ==
  /\ variant \in Variants
  /\ cubies = InitialCubies
  /\ rCubies = InitialCubies
  /\ moveQueue = <<>>
  /\ rQueue = <<>>
  /\ orbitEnabled = TRUE
  /\ isAnimating = FALSE
  /\ currentMove = NullMove
  /\ moveProgress = 0
  /\ activeCubieIds = {}
  /\ isDragging = FALSE
  /\ dragStart = NoDrag
  /\ dragRef = NoDrag
  /\ mounted = FALSE
  /\ appended = <<>>
  /\ committed = <<>>
  /\ staleTicks = 0
  /\ turnStart = NoTurn
  /\ scrambleCall = NoCall

-----------------------------------------------------------------------------
(* App *)

\* onManualMove / onMove: handleMove(moveKey)
HandleMove(moveKey) ==
  /\ moveQueue' = HandleMoveQueue(moveQueue, moveKey)
  /\ appended' = IF Truthy(Lookup(moveKey)) THEN Append(appended, Lookup(moveKey)) ELSE appended

\* a click on an enabled move button of Controls
ButtonMove(moveKey) ==
  /\ mounted
  /\ ~ControlsDisabled
  /\ Len(appended) < AppendLimit
  /\ HandleMove(moveKey)
  /\ UNCHANGED <<scrambleCall, variant, cubies, rCubies, rQueue, orbitEnabled, animVars, dragVars,
                 mounted, committed, staleTicks, turnStart>>

\* scramble(): called by the mount effect, then by the enabled Scramble button
Scramble ==
  /\ \/ ~mounted
     \/ mounted /\ ~ControlsDisabled
  /\ Len(appended) + ScrambleLen <= AppendLimit
  /\ \E newMoves \in ScrambleOutcomes(ScrambleLen) :
       /\ moveQueue' = moveQueue \o newMoves
       /\ appended' = appended \o newMoves
  /\ mounted' = TRUE
  /\ UNCHANGED <<scrambleCall, variant, cubies, rCubies, rQueue, orbitEnabled, animVars, dragVars,
                 committed, staleTicks, turnStart>>

\* App renders with the new queue and hands it to Cube3D, which renders with it
\* and with its latest state
RenderApp ==
  /\ rQueue # moveQueue
  /\ rQueue' = moveQueue
  /\ rCubies' = cubies
  /\ staleTicks' = 0
  /\ UNCHANGED <<scrambleCall, variant, cubies, moveQueue, orbitEnabled, animVars, dragVars,
                 mounted, histVars>>

\* Cube3D renders after setCubies, with the props it already has
RenderCube3D ==
  /\ rCubies # cubies
  /\ rCubies' = cubies
  /\ staleTicks' = IF rQueue # moveQueue THEN staleTicks ELSE 0
  /\ UNCHANGED <<scrambleCall, variant, cubies, moveQueue, rQueue, orbitEnabled, animVars, dragVars,
                 mounted, histVars>>

-----------------------------------------------------------------------------
(* The animation loop *)

\* elapsed time of a frame, in milliseconds
Deltas == {160, 400}

RenderPending == rQueue # moveQueue \/ rCubies # cubies

\* a frame that advances a turn before the pending re-render counts against
\* MaxStaleTicks; a frame that finds nothing to animate changes nothing
FrameAllowed(animating) ==
  /\ animating /\ RenderPending => staleTicks < MaxStaleTicks
  /\ staleTicks' = IF ~animating THEN staleTicks
                   ELSE IF RenderPending THEN staleTicks + 1 ELSE 0

\* components/Cube3D.tsx: radians per second, and PI/2 in 1/10000 radian
ANIMATION_SPEED == 5
TargetAngle == 15708

\* ANIMATION_SPEED * delta, in 1/10000 radian, delta in milliseconds
FrameStep(delta) == ANIMATION_SPEED * 10 * delta

\* frameRotation: the step, cut so that progress does not pass the target
FrameRotation(progress, step) ==
  IF progress + step > TargetAngle THEN TargetAngle - progress ELSE step

\* the state values at the frame that starts a turn of move
TurnStarted(move) ==
  [queue |-> moveQueue, appended |-> Len(appended), slice |-> SliceIds(cubies, move)]

\* what completing a turn does to the state and the histories: the setCubies and
\* setMoveQueue updaters act on the state values; the closures of the last
\* render keep rCubies and rQueue until a render action runs
CompleteTurn(move, newCubies) ==
  /\ cubies' = newCubies
  /\ moveQueue' = Slice1(moveQueue)
  /\ committed' = Append(committed, move)
  /\ turnStart' = NoTurn
  /\ UNCHANGED appended

\* components/Cube3D.tsx useFrame
UseFrameCube3D(delta) ==
  /\ variant = "Cube3D"
  /\ FrameAllowed((isAnimating \/ Len(rQueue) > 0))
  /\ LET start == ~isAnimating /\ Len(rQueue) > 0
         move == IF start THEN rQueue[1] ELSE currentMove
         animating == isAnimating \/ start
         progress0 == IF start THEN 0 ELSE moveProgress
         ids == IF start THEN SliceIds(rCubies, move) ELSE activeCubieIds
         progress == progress0 + FrameRotation(progress0, FrameStep(delta))
     IN IF animating /\ move # NullMove
        THEN /\ moveProgress' = progress
             /\ activeCubieIds' = ids
             /\ IF progress >= TargetAngle
                THEN /\ isAnimating' = FALSE
                     /\ currentMove' = NullMove
                     /\ CompleteTurn(move, CommitByIds(cubies, ids, move))
                ELSE /\ isAnimating' = TRUE
                     /\ currentMove' = move
                     /\ turnStart' = IF start THEN TurnStarted(move) ELSE turnStart
                     /\ UNCHANGED <<cubies, moveQueue, appended, committed>>
        ELSE UNCHANGED <<animVars, cubies, moveQueue, histVars>>
  /\ UNCHANGED <<scrambleCall, variant, rCubies, rQueue, orbitEnabled, dragVars, mounted>>

\* second Cube3D: progress runs from 0 to 1, kept in 1/1000
SlowSpeed == 6
FastSpeed == 20
FastDepth == 5
ProgressDone == 1000

\* const speed = moveQueue.length > 5 ? 20 : 6
Speed(queue) == IF Len(queue) > FastDepth THEN FastSpeed ELSE SlowSpeed

\* a frame that writes the turned slice when the turn starts
UseFrameScreenCommitAtStart(delta) ==
  /\ variant = "Cube3DScreen"
  /\ ~isAnimating /\ Len(rQueue) > 0
  /\ isAnimating' = TRUE
  /\ currentMove' = rQueue[1]
  /\ moveProgress' = delta * Speed(rQueue)
  /\ cubies' = CommitBySlice(cubies, rQueue[1])
  /\ UNCHANGED <<scrambleCall, variant, rCubies, moveQueue, rQueue, orbitEnabled, activeCubieIds,
                 dragVars, mounted, histVars, staleTicks>>

\* second Cube3D useFrame, finishMove included
UseFrameScreen(delta) ==
  /\ variant = "Cube3DScreen"
  /\ FrameAllowed((isAnimating \/ Len(rQueue) > 0))
  /\ LET start == ~isAnimating /\ Len(rQueue) > 0
         move == IF start THEN rQueue[1] ELSE currentMove
         animating == isAnimating \/ start
         progress0 == IF start THEN 0 ELSE moveProgress
         progress == progress0 + delta * Speed(rQueue)
     IN IF animating /\ move # NullMove
        THEN IF progress >= ProgressDone
             THEN /\ isAnimating' = FALSE
                  /\ currentMove' = NullMove
                  /\ moveProgress' = 0
                  /\ CompleteTurn(move, CommitBySlice(cubies, move))
             ELSE /\ isAnimating' = TRUE
                  /\ currentMove' = move
                  /\ moveProgress' = progress
                  /\ turnStart' = IF start THEN TurnStarted(move) ELSE turnStart
                  /\ UNCHANGED <<cubies, moveQueue, appended, committed>>
        ELSE UNCHANGED <<isAnimating, currentMove, moveProgress, cubies, moveQueue, histVars>>
  /\ UNCHANGED <<scrambleCall, variant, rCubies, rQueue, orbitEnabled, activeCubieIds, dragVars,
                 mounted>>

-----------------------------------------------------------------------------
(* components/Cube3D.tsx: drag gestures resolved from the face normal.       *)
(* World lengths are in 1/100 of a unit.                                     *)

\* ids of the cubies the pointer goes down on
HitIds == {16, 26}

\* the cubie with a given id: cubies.find(c => c.id === cubieId)
FindCubie(cs, cubieId) == cs[CHOOSE i \in 1..Len(cs) : cs[i].id = cubieId]

UnitVectors ==
  { [x |-> 1, y |-> 0, z |-> 0], [x |-> -1, y |-> 0, z |-> 0],
    [x |-> 0, y |-> 1, z |-> 0], [x |-> 0, y |-> -1, z |-> 0],
    [x |-> 0, y |-> 0, z |-> 1], [x |-> 0, y |-> 0, z |-> -1] }

Dot3(a, b) == a.x * b.x + a.y * b.y + a.z * b.z

\* the world normals of the faces of a cubie at pos that lie on the cube's surface
OutwardNormals(pos) == {n \in UnitVectors : Dot3(n, pos) = 1}

\* the centre of the face with normal n of the cubie at pos (hit.point at pointer-down)
FaceCentre(pos, n) ==
  [x |-> 100 * pos.x + 50 * n.x, y |-> 100 * pos.y + 50 * n.y, z |-> 100 * pos.z + 50 * n.z]

\* offsets of the pointer between pointer-down and a pointer-move
V3(x, y, z) == [x |-> x, y |-> y, z |-> z]
WorldVectors ==
  { V3(30, 0, 0), V3(-30, 0, 0), V3(0, 30, 0), V3(0, -30, 0), V3(0, 0, 30), V3(0, 0, -30),
    V3(0, -24, 0), V3(15, 15, 0), V3(15, 20, 0), V3(-20, 0, 25) }

Sub3(a, b) == [x |-> a.x - b.x, y |-> a.y - b.y, z |-> a.z - b.z]
Add3(a, b) == [x |-> a.x + b.x, y |-> a.y + b.y, z |-> a.z + b.z]
Abs(n) == IF n < 0 THEN -n ELSE n
Sign(n) == IF n > 0 THEN 1 ELSE IF n < 0 THEN -1 ELSE 0

\* moveVector.length() < 0.25
MinWorldDrag == 25
BelowWorldThreshold(moveVector) == Dot3(moveVector, moveVector) < MinWorldDrag * MinWorldDrag

\* crossVectors(normal, moveDirNorm): moveDirNorm is moveVector over its (positive)
\* length, which changes neither the sign nor the order of the components
CrossVectors(a, b) ==
  [x |-> a.y * b.z - a.z * b.y, y |-> a.z * b.x - a.x * b.z, z |-> a.x * b.y - a.y * b.x]

\* the dominant component of rotAxisVec
RotAxis(rotAxisVec) ==
  LET first == IF Abs(rotAxisVec.y) > Abs(rotAxisVec.x) THEN "y" ELSE "x"
  IN IF Abs(rotAxisVec.z) > Abs(rotAxisVec.y) /\ Abs(rotAxisVec.z) > Abs(rotAxisVec.x)
     THEN "z" ELSE first

\* Object.entries(MOVES).find(...): the first key, in table order, that matches
RECURSIVE FindMove(_, _, _, _)
FindMove(i, axis, sliceVal, direction) ==
  IF i > Len(MoveKeys) THEN ""
  ELSE IF /\ MOVES[MoveKeys[i]].axis = axis
          /\ MOVES[MoveKeys[i]].slice = sliceVal
          /\ MOVES[MoveKeys[i]].direction = direction
       THEN MoveKeys[i]
       ELSE FindMove(i + 1, axis, sliceVal, direction)

\* handlePointerMove from the threshold test on: the key of matchedMove, "" for none
MatchedMove(cs, drag, moveVector) ==
  IF BelowWorldThreshold(moveVector) THEN ""
  ELSE LET cubie == FindCubie(cs, drag.cubieId)
           rotAxisVec == CrossVectors(drag.normal, moveVector)
           rotAxis == RotAxis(rotAxisVec)
           rotDirRaw == Coord(rotAxisVec, rotAxis)
           rotSlice == Coord(cubie.position, rotAxis)
       IN FindMove(1, rotAxis, rotSlice, Sign(rotDirRaw) * (-1))

\* handlePointerDown
HandlePointerDown3D(cubieId, normal) ==
  /\ variant = "Cube3D"
  /\ mounted
  /\ ~(isAnimating \/ Len(rQueue) > 0)
  /\ normal \in OutwardNormals(FindCubie(rCubies, cubieId).position)
  /\ orbitEnabled' = FALSE
  /\ isDragging' = TRUE
  /\ dragStart' = [cubieId |-> cubieId, normal |-> normal,
                   point |-> FaceCentre(FindCubie(rCubies, cubieId).position, normal)]
  /\ UNCHANGED <<scrambleCall, variant, cubies, rCubies, moveQueue, rQueue, animVars, dragRef,
                 mounted, histVars, staleTicks>>

\* a pointer-up that ends the gesture and leaves the orbit control as it is
HandlePointerUp3DKeepsOrbit ==
  /\ variant = "Cube3D"
  /\ isDragging' = FALSE
  /\ dragStart' = NoDrag
  /\ UNCHANGED <<scrambleCall, variant, cubies, rCubies, moveQueue, rQueue, orbitEnabled, animVars,
                 dragRef, mounted, histVars, staleTicks>>

\* handlePointerUp, also bound to onPointerLeave
HandlePointerUp3D ==
  /\ variant = "Cube3D"
  /\ orbitEnabled' = TRUE
  /\ isDragging' = FALSE
  /\ dragStart' = NoDrag
  /\ UNCHANGED <<scrambleCall, variant, cubies, rCubies, moveQueue, rQueue, animVars, dragRef,
                 mounted, histVars, staleTicks>>

\* a pointer-move that passes the matched move on and keeps the drag open
HandlePointerMove3DKeepsDragging(offset) ==
  /\ variant = "Cube3D"
  /\ ~(~isDragging \/ dragStart = NoDrag \/ isAnimating)
  /\ LET hitPoint == Add3(dragStart.point, offset)
         key == MatchedMove(rCubies, dragStart, Sub3(hitPoint, dragStart.point))
     IN IF key # ""
        THEN Len(appended) < AppendLimit /\ HandleMove(key)
        ELSE UNCHANGED <<moveQueue, appended>>
  /\ UNCHANGED <<scrambleCall, variant, cubies, rCubies, rQueue, orbitEnabled, animVars, dragVars,
                 mounted, committed, staleTicks, turnStart>>

\* handlePointerMove with the pointer over the cube, displaced by offset from
\* the point of the pointer-down
HandlePointerMove3D(offset) ==
  /\ variant = "Cube3D"
  /\ ~(~isDragging \/ dragStart = NoDrag \/ isAnimating)
  /\ LET hitPoint == Add3(dragStart.point, offset)
         key == MatchedMove(rCubies, dragStart, Sub3(hitPoint, dragStart.point))
     IN IF key # ""
        THEN /\ Len(appended) < AppendLimit
             /\ HandleMove(key)
             /\ isDragging' = FALSE
             /\ dragStart' = NoDrag
             /\ orbitEnabled' = TRUE
        ELSE UNCHANGED <<moveQueue, appended, isDragging, dragStart, orbitEnabled>>
  /\ UNCHANGED <<scrambleCall, variant, cubies, rCubies, rQueue, animVars, dragRef, mounted,
                 committed, staleTicks, turnStart>>

-----------------------------------------------------------------------------
(* Second Cube3D: drag gestures resolved in screen space.  World coordinates  *)
(* are kept in 1/10000, unit vectors in 1/1000, normalised device coordinates *)
(* in 1/100000, scores in 1/1000000.                                          *)

RECURSIVE IsqrtSearch(_, _, _)
IsqrtSearch(n, lo, hi) ==
  IF lo >= hi THEN lo
  ELSE LET mid == (lo + hi + 1) \div 2
       IN IF mid * mid <= n THEN IsqrtSearch(n, mid, hi) ELSE IsqrtSearch(n, lo, mid - 1)

\* Math.sqrt, rounded down
Isqrt(n) == IsqrtSearch(n, 0, 46340)

\* the power of ten a squared length can be scaled by before its root is taken
ScaleFor(n2) ==
  IF n2 < 2000 THEN 1000 ELSE IF n2 < 200000 THEN 100 ELSE IF n2 < 20000000 THEN 10 ELSE 1

\* one component of v.normalize(), in 1/1000; a zero vector stays zero
UnitComponent(c, n2) ==
  IF n2 = 0 THEN 0 ELSE (c * 1000 * ScaleFor(n2)) \div Isqrt(n2 * ScaleFor(n2) * ScaleFor(n2))

\* Vector2.normalize()
Normalize2(v) ==
  LET n2 == v.x * v.x + v.y * v.y
  IN [x |-> UnitComponent(v.x, n2), y |-> UnitComponent(v.y, n2)]

\* Vector3.normalize()
Normalize3(v) ==
  LET n2 == Dot3(v, v)
  IN [x |-> UnitComponent(v.x, n2), y |-> UnitComponent(v.y, n2), z |-> UnitComponent(v.z, n2)]

\* cos and sin of THREE.MathUtils.degToRad(10), in 1/10000
Cos10 == 9848
Sin10 == 1736

\* originalPos.clone().applyQuaternion(q) for q = setFromAxisAngle(axisVec, 10 degrees * direction)
RotateSmall(pos, axis, direction) ==
  LET c == Cos10
      s == Sin10 * direction
  IN IF axis = "x" THEN [x |-> 10000 * pos.x, y |-> c * pos.y - s * pos.z, z |-> s * pos.y + c * pos.z]
     ELSE IF axis = "y" THEN [x |-> c * pos.x + s * pos.z, y |-> 10000 * pos.y, z |-> c * pos.z - s * pos.x]
     ELSE [x |-> c * pos.x - s * pos.y, y |-> s * pos.x + c * pos.y, z |-> 10000 * pos.z]

Scale3(pos, k) == [x |-> k * pos.x, y |-> k * pos.y, z |-> k * pos.z]

\* delta3D.lengthSq() < 0.001
NoTranslation(delta3D) == Dot3(delta3D, delta3D) < 100000

\* the camera looks at the origin with up = (0, 1, 0); fov 45: 1 / tan(22.5 degrees) in 1/10000
Focal == 24142

\* camera positions the orbit control can reach, and width : height of the canvas
Cameras ==
  { [position |-> V3(5, 4, 6), aspect |-> <<16, 9>>],
    [position |-> V3(-6, 4, 5), aspect |-> <<1, 1>>] }

\* the rows of camera.matrixWorldInverse (Matrix4.lookAt)
CameraBack(camera) == Normalize3(camera.position)
CameraRight(camera) == Normalize3(V3(camera.position.z, 0, -camera.position.x))
CameraUp(camera) ==
  LET p == camera.position
  IN Normalize3(V3(-(p.x * p.y), p.x * p.x + p.z * p.z, -(p.y * p.z)))
\* the distance of the camera from the origin, in 1/10000
CameraDistance(camera) == 10 * Isqrt(Dot3(camera.position, camera.position) * 1000000)

\* v.project(camera) for a world point in 1/10000, then Vector2(p.x, -p.y)
ProjectToScreen(point, camera) ==
  LET xc == Dot3(point, CameraRight(camera)) \div 1000
      yc == Dot3(point, CameraUp(camera)) \div 1000
      depth == CameraDistance(camera) - (Dot3(point, CameraBack(camera)) \div 1000)
      ndcX == (((((xc * 100000) \div depth) * Focal) \div 10000) * camera.aspect[2]) \div camera.aspect[1]
      ndcY == (((yc * 100000) \div depth) * Focal) \div 10000
  IN [x |-> ndcX, y |-> -ndcY]

Sub2(a, b) == [x |-> a.x - b.x, y |-> a.y - b.y]
Dot2(a, b) == a.x * b.x + a.y * b.y

\* let maxScore = -Infinity: below every score
NegInfinity == -2000000

\* steps 2 to 4 of the loop body: the score of one candidate move
Score(pos, move, dragDir, camera) ==
  LET p1Screen == ProjectToScreen(Scale3(pos, 10000), camera)
      p2Screen == ProjectToScreen(RotateSmall(pos, move.axis, move.direction), camera)
      projectedDir == Normalize2(Sub2(p2Screen, p1Screen))
  IN Dot2(projectedDir, dragDir)

\* the early returns without the slice test of step 1
SkippedNoSliceTest(pos, move) ==
  NoTranslation(Sub3(RotateSmall(pos, move.axis, move.direction), Scale3(pos, 10000)))

\* a candidate the loop body returns early for
Skipped(pos, move) ==
  \/ ~IsInSlice(pos, move.axis, move.slice)
  \/ NoTranslation(Sub3(RotateSmall(pos, move.axis, move.direction), Scale3(pos, 10000)))

\* Object.entries(MOVES).forEach(...): <<maxScore, bestMoveKey>> after entry i and the rest
RECURSIVE BestMoveLoop(_, _, _, _, _, _)
BestMoveLoop(i, pos, dragDir, camera, maxScore, bestMoveKey) ==
  IF i > Len(MoveKeys) THEN <<maxScore, bestMoveKey>>
  ELSE LET key == MoveKeys[i]
           move == MOVES[key]
       IN IF Skipped(pos, move)
          THEN BestMoveLoop(i + 1, pos, dragDir, camera, maxScore, bestMoveKey)
          ELSE LET score == Score(pos, move, dragDir, camera)
               IN IF score > maxScore
                  THEN BestMoveLoop(i + 1, pos, dragDir, camera, score, key)
                  ELSE BestMoveLoop(i + 1, pos, dragDir, camera, maxScore, bestMoveKey)

\* maxScore > 0.5
MinScore == 500000

\* determineBestMove(cubie, dragDelta): the key, "" for null
DetermineBestMove(cubie, dragDelta, camera) ==
  LET best == BestMoveLoop(1, cubie.position, Normalize2(dragDelta), camera, NegInfinity, "")
  IN IF best[1] > MinScore THEN best[2] ELSE ""

\* delta.length() > 20, in pixels
MinScreenDrag == 20
\* the test written with >= in the place of >
ExceedsScreenThresholdInclusive(delta) == Dot2(delta, delta) >= MinScreenDrag * MinScreenDrag

ExceedsScreenThreshold(delta) == Dot2(delta, delta) > MinScreenDrag * MinScreenDrag

\* clientX, clientY of the pointer-down, and offsets of the pointer-up from it
V2(x, y) == [x |-> x, y |-> y]
DownPoints == { V2(400, 300) }
ScreenOffsets ==
  { V2(5, 0), V2(12, 16), V2(30, 0), V2(-30, 0), V2(0, 30), V2(0, -30), V2(-21, 21) }
Add2(a, b) == [x |-> a.x + b.x, y |-> a.y + b.y]

\* determineBestMove on the inputs the model draws, computed once
BestMoveTable ==
  [k \in Lattice \X ScreenOffsets \X Cameras |->
     DetermineBestMove([position |-> k[1]], k[2], k[3])] @@ <<>>

BestMove(cubie, delta, camera) ==
  IF <<cubie.position, delta, camera>> \in DOMAIN BestMoveTable
  THEN BestMoveTable[<<cubie.position, delta, camera>>]
  ELSE DetermineBestMove(cubie, delta, camera)

\* handlePointerUp from the threshold test on: the key passed to onManualMove, "" for none
ResolvedKey(drag, endScreen, camera) ==
  LET delta == Sub2(endScreen, drag.startScreen)
  IN IF ExceedsScreenThreshold(delta) THEN BestMove(drag.cubie, delta, camera) ELSE ""

\* handlePointerDown(e, cubie) with the left button, on a mesh of the last render
HandlePointerDownScreen(index, startScreen) ==
  /\ variant = "Cube3DScreen"
  /\ mounted
  /\ ~isAnimating
  /\ rCubies[index].id \in HitIds
  /\ orbitEnabled' = FALSE
  /\ dragRef' = [startScreen |-> startScreen, cubie |-> rCubies[index]]
  /\ UNCHANGED <<scrambleCall, variant, cubies, rCubies, moveQueue, rQueue, animVars, isDragging,
                 dragStart, mounted, histVars, staleTicks>>

\* handlePointerUp(e)
HandlePointerUpScreen(offset, camera) ==
  /\ variant = "Cube3DScreen"
  /\ orbitEnabled' = TRUE
  /\ IF dragRef = NoDrag
     THEN UNCHANGED <<moveQueue, appended, dragRef>>
     ELSE /\ LET key == ResolvedKey(dragRef, Add2(dragRef.startScreen, offset), camera)
             IN IF key # ""
                THEN Len(appended) < AppendLimit /\ HandleMove(key)
                ELSE UNCHANGED <<moveQueue, appended>>
          /\ dragRef' = NoDrag
  /\ UNCHANGED <<scrambleCall, variant, cubies, rCubies, rQueue, animVars, isDragging, dragStart,
                 mounted, committed, staleTicks, turnStart>>

-----------------------------------------------------------------------------
\* a pointer-up with no drag record reads neither the pointer position nor the camera
UpOffsets == IF dragRef = NoDrag THEN {V2(30, 0)} ELSE ScreenOffsets
UpCameras == IF dragRef = NoDrag THEN {[position |-> V3(5, 4, 6), aspect |-> <<16, 9>>]} ELSE Cameras

Next ==
  \/ Scramble
  \/ \E moveKey \in ClickedKeys : ButtonMove(moveKey)
  \/ RenderApp
  \/ RenderCube3D
  \/ \E delta \in Deltas : UseFrameCube3D(delta)
  \/ \E delta \in Deltas : UseFrameScreen(delta)
  \/ \E cubieId \in HitIds : \E normal \in UnitVectors : HandlePointerDown3D(cubieId, normal)
  \/ HandlePointerUp3D
  \/ \E offset \in WorldVectors : HandlePointerMove3D(offset)
  \/ \E index \in 1..27 : \E startScreen \in DownPoints : HandlePointerDownScreen(index, startScreen)
  \/ \E offset \in UpOffsets : \E camera \in UpCameras : HandlePointerUpScreen(offset, camera)

Spec == Init /\ [][Next]_vars

-----------------------------------------------------------------------------
(* Cube3D handed a queue that holds the same table move four times *)

InitOrder4 ==
  /\ variant \in Variants
  /\ cubies = InitialCubies
  /\ rCubies = InitialCubies
  /\ \E key \in OwnKeys :
       moveQueue = <<MOVES[key], MOVES[key], MOVES[key], MOVES[key]>>
  /\ appended = moveQueue
  /\ rQueue = <<>>
  /\ orbitEnabled = TRUE
  /\ isAnimating = FALSE
  /\ currentMove = NullMove
  /\ moveProgress = 0
  /\ activeCubieIds = {}
  /\ isDragging = FALSE
  /\ dragStart = NoDrag
  /\ dragRef = NoDrag
  /\ mounted = TRUE
  /\ committed = <<>>
  /\ staleTicks = 0
  /\ turnStart = NoTurn
  /\ scrambleCall = NoCall

NextOrder4 ==
  \/ RenderApp
  \/ RenderCube3D
  \/ \E delta \in Deltas : UseFrameCube3D(delta)
  \/ \E delta \in Deltas : UseFrameScreen(delta)

SpecOrder4 == InitOrder4 /\ [][NextOrder4]_vars

-----------------------------------------------------------------------------
(* handleMove called with any string on a queue of table moves *)

\* longest queue handleMove is called on
MaxQueued == 2

\* the strings handleMove is called with
ApiKeys == OwnKeys \cup ObjectPrototypeKeys \cup {"", "u1", "U3", "R"}

InitHandleMove ==
  /\ variant \in Variants
  /\ cubies = InitialCubies
  /\ rCubies = InitialCubies
  /\ moveQueue \in UNION {[1..n -> TableMoves] : n \in 1..MaxQueued}
  /\ appended = moveQueue
  /\ rQueue = <<>>
  /\ orbitEnabled = TRUE
  /\ isAnimating = FALSE
  /\ currentMove = NullMove
  /\ moveProgress = 0
  /\ activeCubieIds = {}
  /\ isDragging = FALSE
  /\ dragStart = NoDrag
  /\ dragRef = NoDrag
  /\ mounted = TRUE
  /\ committed = <<>>
  /\ staleTicks = 0
  /\ turnStart = NoTurn
  /\ scrambleCall = NoCall

\* handleMove(moveKey), called once
HandleMoveCall(moveKey) ==
  /\ Len(moveQueue) <= MaxQueued
  /\ HandleMove(moveKey)
  /\ UNCHANGED <<scrambleCall, variant, cubies, rCubies, rQueue, orbitEnabled, animVars, dragVars,
                 mounted, committed, staleTicks, turnStart>>

NextHandleMove == \E moveKey \in ApiKeys : HandleMoveCall(moveKey)

SpecHandleMove == InitHandleMove /\ [][NextHandleMove]_vars

-----------------------------------------------------------------------------
(* scramble() run on a stream of Math.random outcomes *)

\* redraws of one while loop followed before the call is taken never to return:
\* a stream repeats after Len(MoveKeys) draws
MaxRedraws == 12
\* scramble calls in one behaviour
MaxScrambleCalls == 2

\* the outcomes of successive randInt(0, keys.length - 1) calls: draw k of a stream
Streams == [seed : 0..(Len(MoveKeys) - 1), stride : 0..(Len(MoveKeys) - 1)]
RandInt(stream, k) == (stream.seed + k * stream.stride) % Len(MoveKeys)

\* a loop condition that never asks for a redraw
SameAxisNever(move, lastAxis) == FALSE

\* the loop condition that also holds before the first move is chosen
SameAxisOrFirst(move, lastAxis) == move.axis = lastAxis \/ lastAxis = ""

\* while (move.axis === lastAxis)
SameAxis(move, lastAxis) == move.axis = lastAxis

\* the for loop from iteration i on, draw k being the next and redraws the
\* number of turns the while loop has taken in this iteration: newMoves when
\* the loop ends, and whether it ends
RECURSIVE ScrambleFrom(_, _, _, _, _, _)
ScrambleFrom(i, k, redraws, lastAxis, newMoves, stream) ==
  IF i >= ScrambleCount THEN [newMoves |-> newMoves, returns |-> TRUE]
  ELSE IF redraws > MaxRedraws THEN [newMoves |-> newMoves, returns |-> FALSE]
  ELSE LET move == MOVES[MoveKeys[RandInt(stream, k) + 1]]
       IN IF SameAxis(move, lastAxis)
          THEN ScrambleFrom(i, k + 1, redraws + 1, lastAxis, newMoves, stream)
          ELSE ScrambleFrom(i + 1, k + 1, 0, move.axis, Append(newMoves, move), stream)

\* const newMoves = []; let lastAxis = ''
ScrambleRun(stream) == ScrambleFrom(0, 0, 0, "", <<>>, stream)

\* scramble on the streams the model draws, computed once
ScrambleTable == [stream \in Streams |-> ScrambleRun(stream)] @@ <<>>

\* a scramble that puts its batch in front of the queue
ScrambleCallPrepends(stream) ==
  /\ Len(appended) < MaxScrambleCalls * ScrambleCount
  /\ ScrambleTable[stream].returns
  /\ moveQueue' = ScrambleTable[stream].newMoves \o moveQueue
  /\ appended' = appended \o ScrambleTable[stream].newMoves
  /\ mounted' = TRUE
  /\ UNCHANGED <<scrambleCall, variant, cubies, rCubies, rQueue, orbitEnabled, animVars, dragVars,
                 committed, staleTicks, turnStart>>

\* scramble() with Math.random following stream; a call whose redraw loop never
\* ends never reaches setMoveQueue
ScrambleCall(stream) ==
  /\ Len(appended) < MaxScrambleCalls * ScrambleCount
  /\ ScrambleTable[stream].returns
  /\ moveQueue' = moveQueue \o ScrambleTable[stream].newMoves
  /\ appended' = appended \o ScrambleTable[stream].newMoves
  /\ mounted' = TRUE
  /\ UNCHANGED <<scrambleCall, variant, cubies, rCubies, rQueue, orbitEnabled, animVars, dragVars,
                 committed, staleTicks, turnStart>>

NextScramble == \E stream \in Streams : ScrambleCall(stream)

SpecScramble == Init /\ [][NextScramble]_vars

-----------------------------------------------------------------------------
(* App.tsx: the call of scramble() by the mount effect, statement by         *)
(* statement, Math.random drawing any of the keys in DrawnKeys               *)

\* the keys Math.random picks in these behaviours: two of one axis, one of another
DrawnKeys == {k \in OwnKeys : k \in {"U1", "U2", "L1"}}

\* useEffect(() => { scramble(); }): const newMoves = []; let lastAxis = ''; let i = 0
ScrambleEnter ==
  /\ ~mounted
  /\ scrambleCall = NoCall
  /\ scrambleCall' = [pc |-> "for", i |-> 0, key |-> "", lastAxis |-> "", newMoves |-> <<>>]
  /\ UNCHANGED <<variant, cubies, rCubies, moveQueue, rQueue, orbitEnabled, animVars,
                 dragVars, mounted, appended, committed, staleTicks, turnStart>>

\* i < 20: let key = keys[randInt(0, keys.length - 1)]; let move = MOVES[key]
ScrambleDraw(key) ==
  /\ scrambleCall.pc = "for"
  /\ scrambleCall.i < ScrambleCount
  /\ scrambleCall' = [scrambleCall EXCEPT !.pc = "while", !.key = key]
  /\ UNCHANGED <<variant, cubies, rCubies, moveQueue, rQueue, orbitEnabled, animVars,
                 dragVars, mounted, appended, committed, staleTicks, turnStart>>

\* while (move.axis === lastAxis) { key = keys[randInt(...)]; move = MOVES[key]; }
ScrambleRedraw(key) ==
  /\ scrambleCall.pc = "while"
  /\ SameAxis(MOVES[scrambleCall.key], scrambleCall.lastAxis)
  /\ scrambleCall' = [scrambleCall EXCEPT !.key = key]
  /\ UNCHANGED <<variant, cubies, rCubies, moveQueue, rQueue, orbitEnabled, animVars,
                 dragVars, mounted, appended, committed, staleTicks, turnStart>>

\* the loop is left: newMoves.push(move); lastAxis = move.axis; i++
ScramblePush ==
  /\ scrambleCall.pc = "while"
  /\ ~SameAxis(MOVES[scrambleCall.key], scrambleCall.lastAxis)
  /\ scrambleCall' = [scrambleCall EXCEPT
                        !.pc = "for",
                        !.i = @ + 1,
                        !.lastAxis = MOVES[scrambleCall.key].axis,
                        !.newMoves = Append(@, MOVES[scrambleCall.key])]
  /\ UNCHANGED <<variant, cubies, rCubies, moveQueue, rQueue, orbitEnabled, animVars,
                 dragVars, mounted, appended, committed, staleTicks, turnStart>>

\* i = 20: setMoveQueue(prev => [...prev, ...newMoves]) and the call returns
ScrambleReturn ==
  /\ scrambleCall.pc = "for"
  /\ scrambleCall.i >= ScrambleCount
  /\ moveQueue' = moveQueue \o scrambleCall.newMoves
  /\ appended' = appended \o scrambleCall.newMoves
  /\ mounted' = TRUE
  /\ scrambleCall' = NoCall
  /\ UNCHANGED <<variant, cubies, rCubies, rQueue, orbitEnabled, animVars, dragVars,
                 committed, staleTicks, turnStart>>

NextScrambleLoop ==
  \/ ScrambleEnter
  \/ \E key \in DrawnKeys : ScrambleDraw(key)
  \/ \E key \in DrawnKeys : ScrambleRedraw(key)
  \/ ScramblePush
  \/ ScrambleReturn

\* the statements of the call run one after the other, and Math.random is
\* fair: a key that can be drawn again and again is drawn at some time
FairScrambleLoop ==
  /\ WF_vars(ScrambleEnter)
  /\ WF_vars(\E key \in DrawnKeys : ScrambleDraw(key))
  /\ \A key \in DrawnKeys : SF_vars(ScrambleRedraw(key))
  /\ WF_vars(ScramblePush)
  /\ WF_vars(ScrambleReturn)

\* App before its mount effect; the call does not depend on the Cube3D mounted
InitScrambleLoop == Init /\ variant = "Cube3D"

SpecScrambleLoop == InitScrambleLoop /\ [][NextScrambleLoop]_vars /\ FairScrambleLoop

-----------------------------------------------------------------------------
(* The second Cube3D once the mount effect has scrambled and App has         *)
(* rendered the queue of 20 moves                                            *)

\* turns completed in one behaviour
MaxTurns == 2

\* the draws of Math.random during the mount scramble
MountStreams == {[seed |-> 0, stride |-> 5]}

InitScrambled ==
  /\ variant = "Cube3DScreen"
  /\ cubies = InitialCubies
  /\ rCubies = InitialCubies
  /\ \E stream \in MountStreams : moveQueue = ScrambleRun(stream).newMoves
  /\ appended = moveQueue
  /\ rQueue = moveQueue
  /\ orbitEnabled = TRUE
  /\ isAnimating = FALSE
  /\ currentMove = NullMove
  /\ moveProgress = 0
  /\ activeCubieIds = {}
  /\ isDragging = FALSE
  /\ dragStart = NoDrag
  /\ dragRef = NoDrag
  /\ mounted = TRUE
  /\ committed = <<>>
  /\ staleTicks = 0
  /\ turnStart = NoTurn
  /\ scrambleCall = NoCall

NextScrambled ==
  \/ RenderApp
  \/ RenderCube3D
  \/ \E delta \in Deltas : Len(committed) < MaxTurns /\ UseFrameScreen(delta)
  \/ \E index \in 1..27 : \E startScreen \in DownPoints : HandlePointerDownScreen(index, startScreen)
  \/ \E offset \in UpOffsets : \E camera \in UpCameras : HandlePointerUpScreen(offset, camera)

SpecScrambled == InitScrambled /\ [][NextScrambled]_vars

-----------------------------------------------------------------------------
(* The second Cube3D playing back the 20 moves of the mount scramble with no *)
(* other input                                                               *)

\* turns of the playback followed
MaxPlaybackTurns == 16

NextPlayback ==
  \/ RenderApp
  \/ RenderCube3D
  \/ \E delta \in Deltas : Len(committed) < MaxPlaybackTurns /\ UseFrameScreen(delta)

SpecPlayback == InitScrambled /\ [][NextPlayback]_vars

-----------------------------------------------------------------------------
(* The second Cube3D with the on-screen buttons as the only input: the mount *)
(* effect and the Scramble button call scramble(), the move buttons call     *)
(* handleMove, the frames play the queue back                                *)

InitButtons == Init /\ variant = "Cube3DScreen"

\* useEffect(() => { scramble(); }, [scramble]) once, then onScramble of the
\* Scramble button, whose disabled prop is the one of the last render
ScrambleButton(stream) ==
  /\ \/ ~mounted
     \/ mounted /\ ~ControlsDisabled
  /\ ScrambleCall(stream)

\* the move buttons clicked in these behaviours
PlaybackClicks == {k \in ButtonKeys : k \in {"U2", "R1"}}

NextButtons ==
  \/ \E stream \in MountStreams : ScrambleButton(stream)
  \/ \E moveKey \in PlaybackClicks : ButtonMove(moveKey)
  \/ RenderApp
  \/ RenderCube3D
  \/ \E delta \in Deltas : Len(committed) < MaxPlaybackTurns /\ UseFrameScreen(delta)

SpecButtons == InitButtons /\ [][NextButtons]_vars

-----------------------------------------------------------------------------
(* Properties *)

Positions(cs) == {cs[i].position : i \in 1..Len(cs)}

IsPrefix(s, t) == Len(s) <= Len(t) /\ s = SubSeq(t, 1, Len(s))

\* C1 (as the claim states it). Bijection invariant: in every state where no
\* turn is animating, under either commit implementation, there are 27 cubies
\* and their positions are exactly the 27 lattice points, each taken once.
C1_Bijection ==
  ~isAnimating => Len(cubies) = 27 /\ Positions(cubies) = Lattice

\* C2. FIFO exactly-once commit (as the claim states it): the turns committed
\* so far are, in order, the first values appended to the queue, and the queue
\* holds exactly the appended values that are not committed yet.
C2_FifoExactlyOnce ==
  /\ IsPrefix(committed, appended)
  /\ moveQueue = SubSeq(appended, Len(committed) + 1, Len(appended))

\* the table inverse of a move: same axis and slice, opposite direction
Inverse(move) ==
  CHOOSE m \in TableMoves :
    m.axis = move.axis /\ m.slice = move.slice /\ m.direction = -move.direction

\* a turn of components/Cube3D.tsx started and completed on cs
CompleteByIds(cs, move) == CommitByIds(cs, SliceIds(cs, move), move)

\* no turn is animating, nothing waits for a render and no gesture is open
Settled ==
  /\ ~isAnimating
  /\ ~RenderPending
  /\ ~isDragging /\ dragStart = NoDrag /\ dragRef = NoDrag /\ orbitEnabled

\* C3. Inverse law: for each of the 12 table moves M, completing M and then
\* its table inverse from a reachable idle state gives back the position and
\* the stored quaternion of every cubie, under either commit.  The law reads
\* cubies alone, and every value cubies has in an idle state is still there
\* once the pending renders and the open gesture are over.
C3_InverseLaw ==
  Settled =>
    \A key \in OwnKeys :
      LET afterByIds == CompleteByIds(cubies, MOVES[key])
          afterBySlice == CommitBySlice(cubies, MOVES[key])
      IN /\ CompleteByIds(afterByIds, Inverse(MOVES[key])) = cubies
         /\ CommitBySlice(afterBySlice, Inverse(MOVES[key])) = cubies

\* a move and then its table inverse have completed, and the cube is as before
C3_Witness ==
  /\ Settled
  /\ Len(committed) = 2
  /\ committed = appended
  /\ committed[2] = Inverse(committed[1])
  /\ cubies = InitialCubies

\* a cubie's place in the initial state, found by its id
InitialOf(cubie) ==
  InitialCubies[CHOOSE i \in 1..Len(InitialCubies) : InitialCubies[i].id = cubie.id]

\* the quaternion (0, 0, 0, -1)
MinusIdentity == [x |-> Zero, y |-> Zero, z |-> Zero, w |-> Neg(One)]

CompletingTick ==
  /\ \E delta \in Deltas : UseFrameCube3D(delta) \/ UseFrameScreen(delta)
  /\ isAnimating \/ Len(rQueue) > 0
  /\ ~isAnimating'

\* C5. Logical state changes only at turn completion: a step that changes
\* the position or rotation of any cubie is a completing tick; starting a
\* move, advancing it, enqueueing, scrambling, rendering and every pointer
\* event leave the cubie store as it was.
C5_OnlyCompletionMutates == [][cubies' # cubies => CompletingTick]_vars

\* a turn is under way after an earlier one completed, with a drag open
C5_Witness ==
  /\ isAnimating
  /\ moveProgress > 0
  /\ Len(committed) = 1
  /\ cubies # InitialCubies
  /\ (isDragging \/ dragRef # NoDrag)

\* C6, first half. No mid-turn cancellation: a step that takes the machine
\* from animating to idle commits the move that was animating.
C6_NoCancellation ==
  [][isAnimating /\ ~isAnimating' => committed' = Append(committed, currentMove)]_vars

\* C6 (as the claim states it, in its final-state form): once the machine is
\* idle with an empty queue and every render done, each move that was
\* appended to the queue has been committed.
C6_EveryQueuedMoveCommitted ==
  (~isAnimating /\ moveQueue = <<>> /\ ~RenderPending) =>
    \A i \in 1..Len(appended) : \E j \in 1..Len(committed) : committed[j] = appended[i]

\* C7. Slice correctness (as the claim states it): in every idle state each
\* of the nine (axis, slice) filters selects exactly nine cubie ids.
C7_NinePerSlice ==
  ~isAnimating =>
    \A axis \in Axes : \A sliceVal \in {-1, 0, 1} :
      Cardinality(SliceIds(cubies, [axis |-> axis, slice |-> sliceVal])) = 9

\* C8. Color binding / identity: in every state the store holds 27 cubies
\* whose ids are exactly 0..26, the coordinates decoded from each id are the
\* cubie's initial lattice position, and the materials chosen for a cubie are
\* those chosen for that id in the initial state, wherever the cubie is now.
C8_ColorBinding ==
  /\ Len(cubies) = 27
  /\ {cubies[i].id : i \in 1..Len(cubies)} = 0..26
  /\ \A i \in 1..Len(cubies) :
       /\ DecodeId(cubies[i].id) = InitialOf(cubies[i]).position
       /\ Materials(cubies[i]) = Materials(InitialOf(cubies[i]))

\* two turns have completed and a coloured cubie is away from its initial place
C8_Witness ==
  /\ ~isAnimating
  /\ Len(committed) = 2
  /\ committed = appended
  /\ \E i \in 1..Len(cubies) :
       /\ cubies[i].position # DecodeId(cubies[i].id)
       /\ Materials(cubies[i]) # <<"core", "core", "core", "core", "core", "core">>

\* C9 (as the claim states it): handleMove with a string that is not one of
\* the 12 own keys of the move table leaves the queue unchanged.
C9_InvalidKeyNoOp ==
  [][\A moveKey \in ApiKeys \ OwnKeys :
       HandleMoveCall(moveKey) => moveQueue' = moveQueue]_vars

\* C10. Minimum-drag threshold: a pointer-up of the screen variant whose
\* displacement is not longer than 20 px, and a pointer-move of the 3D variant
\* whose world displacement is shorter than 0.25, leave the queue unchanged,
\* whatever the direction, the camera and the cubie the gesture started on.
C10_MinimumDrag ==
  [][/\ \A offset \in ScreenOffsets : \A camera \in Cameras :
          offset.x * offset.x + offset.y * offset.y <= 20 * 20
            /\ HandlePointerUpScreen(offset, camera)
          => moveQueue' = moveQueue
     /\ \A offset \in WorldVectors :
          offset.x * offset.x + offset.y * offset.y + offset.z * offset.z < 25 * 25
            /\ HandlePointerMove3D(offset)
          => moveQueue' = moveQueue]_vars

\* a drag is open on a cubie for which a displacement of 20 px or less points
\* along a move that a longer drag in that direction would pass on
C10_Witness ==
  /\ variant = "Cube3DScreen"
  /\ dragRef # NoDrag
  /\ \E offset \in ScreenOffsets : \E camera \in Cameras :
       /\ offset.x * offset.x + offset.y * offset.y <= 20 * 20
       /\ BestMove(dragRef.cubie, offset, camera) # ""

\* C11. Scramble axis rule: the moves one scramble call appends are 20, and
\* no two consecutive moves of the 20 have the same axis, whatever the random
\* draws were.
C11_ScrambleAxisRule ==
  [][\A stream \in Streams :
       ScrambleCall(stream) =>
         LET newMoves == SubSeq(moveQueue', Len(moveQueue) + 1, Len(moveQueue'))
         IN /\ Len(newMoves) = 20
            /\ \A i \in 1..19 : newMoves[i].axis # newMoves[i + 1].axis]_vars

\* a scramble whose draws start U1, U2, D1, D2, L1: three redraws before the
\* second move
C11_Witness ==
  /\ Len(moveQueue) = 20
  /\ moveQueue = ScrambleRun([seed |-> 0, stride |-> 1]).newMoves
  /\ moveQueue[1] = MOVES["U1"] /\ moveQueue[2] = MOVES["L1"]

\* the centres of the six faces: one coordinate is +1 or -1, the others are 0
FaceCentres == {pos \in Lattice : Dot3(pos, pos) = 1}

\* C12. Center-piece gestures resolve to no move: while a gesture is open,
\* for every cubie of the rendered store that sits at the centre of a face
\* and every drag vector (and camera, and face normal the pointer can hit),
\* determineBestMove returns null and handlePointerMove finds no table move;
\* the gesture that is open on such a cubie leaves the queue as it is.
C12_CentrePieceNoMove ==
  /\ dragRef # NoDrag =>
       \A i \in 1..Len(rCubies) :
         rCubies[i].position \in FaceCentres =>
           \A offset \in ScreenOffsets : \A camera \in Cameras :
             BestMove(rCubies[i], offset, camera) = ""
  /\ (dragRef # NoDrag /\ dragRef.cubie.position \in FaceCentres) =>
       \A offset \in ScreenOffsets : \A camera \in Cameras :
         ResolvedKey(dragRef, Add2(dragRef.startScreen, offset), camera) = ""
  /\ dragStart # NoDrag =>
       \A i \in 1..Len(rCubies) :
         rCubies[i].position \in FaceCentres =>
           \A normal \in OutwardNormals(rCubies[i].position) :
             \A moveVector \in WorldVectors :
               MatchedMove(rCubies, [cubieId |-> rCubies[i].id, normal |-> normal],
                           moveVector) = ""

\* a drag is open on the centre piece of the top face, after a turn that moved
\* other cubies, and the pointer can be released more than 20 px away
C12_Witness ==
  /\ dragRef # NoDrag
  /\ dragRef.cubie.position = [x |-> 0, y |-> 1, z |-> 0]
  /\ Len(committed) > 0
  /\ \E offset \in ScreenOffsets : offset.x * offset.x + offset.y * offset.y > 20 * 20

\* C13, first half. An append while a turn is animating changes only the tail
\* of the queue: the elements already queued, the animating move, its
\* progress, its affected ids and the cubie store are as before.
C13_AppendOnlyTail ==
  [][(isAnimating /\ appended' # appended) =>
       /\ IsPrefix(moveQueue, moveQueue')
       /\ UNCHANGED <<isAnimating, currentMove, moveProgress, activeCubieIds, cubies>>]_vars

\* C13 (as the claim states it). Append during animation is invisible to the
\* running turn: the append changes only the tail of the queue, and a turn
\* during which something was appended commits, when it completes, the move
\* that was at the head of the queue when the turn started.
C13_AppendInvisible ==
  [][/\ (isAnimating /\ appended' # appended) =>
          /\ IsPrefix(moveQueue, moveQueue')
          /\ UNCHANGED <<isAnimating, currentMove, moveProgress, activeCubieIds, cubies>>
     /\ (isAnimating /\ ~isAnimating' /\ Len(appended) > turnStart.appended) =>
          /\ turnStart.queue # <<>>
          /\ committed' = Append(committed, turnStart.queue[1])]_vars

\* the move of the turn that completed last
LastCommitted(history) == history[Len(history)]

\* C14, the update itself. Every change of the cubie store is one whole
\* replacement by the result of a commit, and a render takes the state value
\* as it is: no cubie of the affected set is seen turned before the others.
C14_SingleReplacement ==
  [][/\ cubies' # cubies =>
          /\ Len(committed') = Len(committed) + 1
          /\ cubies' = IF variant = "Cube3D"
                       THEN CommitByIds(cubies, activeCubieIds', LastCommitted(committed'))
                       ELSE CommitBySlice(cubies, LastCommitted(committed'))
     /\ rCubies' # rCubies => rCubies' = cubies]_vars

\* C14 (as the claim states it). Atomic commit: every value of the cubie
\* store a render can observe is the complete configuration before a move or
\* the complete configuration after it, in which every cubie of the turned
\* slice (move.axis, move.slice) is rotated and no other cubie is.
C14_AtomicCommit ==
  [][/\ cubies' # cubies =>
          /\ Len(committed') = Len(committed) + 1
          /\ cubies' = CommitBySlice(cubies, LastCommitted(committed'))
     /\ rCubies' # rCubies => rCubies' = cubies]_vars

\* C15 (as the claim states it). Backpressure on manual input: once the
\* mount scramble has run, no step appends to the queue (a button click, the
\* Scramble button, a move resolved from a drag) while the queue holds more
\* than 5 moves.
C15_Backpressure ==
  [][(mounted /\ Len(moveQueue) > 5) => appended' = appended]_vars

\* the two keys of each face letter
FaceKeys ==
  { <<"U1", "U2">>, <<"D1", "D2">>, <<"L1", "L2">>, <<"R1", "R2">>, <<"F1", "F2">>,
    <<"B1", "B2">> }

\* the keys of the table whose move has the given axis, slice and direction
KeysMatching(axis, sliceVal, direction) ==
  {k \in DOMAIN MOVES :
     MOVES[k].axis = axis /\ MOVES[k].slice = sliceVal /\ MOVES[k].direction = direction}

\* C16. Move table shape: the table has exactly 12 moves, their (axis,
\* slice, direction) triples are pairwise distinct and cover every combination
\* of an axis, a slice of -1 or +1 and a direction of -1 or +1; X1 and X2 of
\* each face letter have the same axis and slice and opposite directions; a
\* lookup by (axis, slice, direction) matches at most one key, the one the
\* find of handlePointerMove returns, and exactly one for a queued table move.
C16_MoveTableShape ==
  /\ Cardinality(DOMAIN MOVES) = 12
  /\ DOMAIN MOVES = OwnKeys
  /\ \A k1, k2 \in DOMAIN MOVES :
       k1 # k2 =>
         <<MOVES[k1].axis, MOVES[k1].slice, MOVES[k1].direction>>
           # <<MOVES[k2].axis, MOVES[k2].slice, MOVES[k2].direction>>
  /\ {<<MOVES[k].axis, MOVES[k].slice, MOVES[k].direction>> : k \in DOMAIN MOVES}
       = {"x", "y", "z"} \X {-1, 1} \X {-1, 1}
  /\ \A pair \in FaceKeys :
       /\ MOVES[pair[1]].axis = MOVES[pair[2]].axis
       /\ MOVES[pair[1]].slice = MOVES[pair[2]].slice
       /\ MOVES[pair[1]].direction = -MOVES[pair[2]].direction
  /\ \A axis \in {"x", "y", "z"} : \A sliceVal \in {-1, 0, 1} : \A direction \in {-1, 0, 1} :
       /\ Cardinality(KeysMatching(axis, sliceVal, direction)) <= 1
       /\ KeysMatching(axis, sliceVal, direction) =
            {FindMove(1, axis, sliceVal, direction)} \ {""}
  /\ \A i \in 1..Len(moveQueue) :
       moveQueue[i].axis \in {"x", "y", "z"} =>
         Cardinality(KeysMatching(moveQueue[i].axis, moveQueue[i].slice,
                                  moveQueue[i].direction)) = 1

\* handleMove has queued both turns of the top face, looked up by their keys
C16_Witness ==
  /\ moveQueue = <<MOVES["D1"], MOVES["U1"], MOVES["U2"]>>
  /\ FindMove(1, "y", 1, -1) = "U1"
  /\ FindMove(1, "y", 1, 1) = "U2"

\* a drag gesture is in progress in the mounted Cube3D
GestureActive == isDragging \/ dragStart # NoDrag \/ dragRef # NoDrag

\* C17. Orbit control gating: in every reachable state camera orbiting is
\* disabled exactly when a drag gesture is in progress; a pointer-up, a
\* pointer-leave or the drag resolving to a move ends the gesture, so orbiting
\* is enabled again after each of them, whatever ticks, renders and appends
\* happen in between.
C17_OrbitGating ==
  /\ orbitEnabled <=> ~GestureActive
  /\ isDragging <=> dragStart # NoDrag

\* a gesture that began on an idle cube is still open, orbiting off, while a
\* turn queued by a button is animating
C17_Witness ==
  /\ ~orbitEnabled
  /\ GestureActive
  /\ isAnimating
  /\ moveProgress > 0

\* C18 (as the claim states it). Animating move is the live queue head:
\* whenever a move is animating, the application's current queue is not empty
\* and the animating move is its first element, for every interleaving of
\* frames, queue updates and renders.
C18_AnimatingIsQueueHead ==
  isAnimating => (moveQueue # <<>> /\ currentMove = moveQueue[1])

\* the ids of the cubies a step rewrites: a turned cubie always gets a new
\* rotation
Rewritten == {cubies[i].id : i \in {j \in 1..Len(cubies) : cubies'[j] # cubies[j]}}

\* C19, the snapshot of components/Cube3D.tsx. activeCubieIds is written only
\* by the frame that starts a turn, and the ids rewritten when the turn
\* completes are the ids it holds.
C19_SnapshotFixed ==
  [][variant = "Cube3D" =>
       /\ (isAnimating /\ isAnimating') => activeCubieIds' = activeCubieIds
       /\ (isAnimating /\ ~isAnimating') => Rewritten = activeCubieIds]_vars

\* C19 (as the claim states it). Affected-set snapshot: the ids whose position
\* and rotation are rewritten when a move completes are the ids of the cubies
\* that were in the slice (move.axis, move.slice) of the cubie store when the
\* move entered Animating, whatever happened during the turn; for a turn
\* started and completed by one frame, the slice of the store at that frame.
C19_AffectedSetSnapshot ==
  [][/\ (isAnimating /\ ~isAnimating') => Rewritten = turnStart.slice
     /\ (~isAnimating /\ committed' # committed) =>
          Rewritten = SliceIds(cubies, LastCommitted(committed'))]_vars

\* the right-handed rotation of a lattice point by direction * 90 degrees
\* about axis, as the claim writes it out
Rotated(pos, axis, direction) ==
  IF axis = "y" THEN [x |-> direction * pos.z, y |-> pos.y, z |-> -direction * pos.x]
  ELSE IF axis = "x" THEN [x |-> pos.x, y |-> -direction * pos.z, z |-> direction * pos.y]
  ELSE [x |-> -direction * pos.y, y |-> direction * pos.x, z |-> pos.z]

\* C20, on the set the commit rewrites. Every cubie a completing frame
\* rewrites gets the exact quarter-turn of its position about the move's axis
\* and keeps its coordinate along that axis; in the second Cube3D the
\* rewritten cubies are the nine of the slice and the other 18 are unchanged.
C20_CommitEffectOnRewritten ==
  [][committed' # committed =>
       LET move == LastCommitted(committed')
       IN /\ \A i \in 1..Len(cubies) :
               cubies[i].id \in Rewritten =>
                 /\ cubies'[i].position =
                      Rotated(cubies[i].position, move.axis, move.direction)
                 /\ Coord(cubies'[i].position, move.axis) = Coord(cubies[i].position, move.axis)
          /\ variant = "Cube3DScreen" =>
               /\ Rewritten = {cubies[i].id : i \in {j \in 1..Len(cubies) :
                                 Coord(cubies[j].position, move.axis) = move.slice}}
               /\ Cardinality(Rewritten) = 9]_vars

\* C20 (as the claim states it). Commit effect: completing a move (axis a,
\* slice s, direction d) replaces the position of each cubie of that slice by
\* its right-handed rotation by d * 90 degrees about a, which keeps its
\* coordinate along a equal to s, and leaves the 18 cubies outside the slice
\* as they were.
C20_CommitEffect ==
  [][committed' # committed =>
       LET move == LastCommitted(committed')
       IN \A i \in 1..Len(cubies) :
            IF Coord(cubies[i].position, move.axis) = move.slice
            THEN /\ cubies'[i].position =
                      Rotated(cubies[i].position, move.axis, move.direction)
                 /\ Coord(cubies'[i].position, move.axis) = move.slice
            ELSE cubies'[i] = cubies[i]]_vars

\* a step in which the open gesture calls onManualMove: the queue grows and
\* the gesture is over
GestureResolves ==
  /\ GestureActive
  /\ appended' # appended
  /\ ~isDragging' /\ dragStart' = NoDrag /\ dragRef' = NoDrag

\* the id of the cubie the open gesture started on
StartCubieId == IF dragRef # NoDrag THEN dragRef.cubie.id ELSE dragStart.cubieId

\* C21, on the position the resolver reads. The move a gesture enqueues is a
\* move of a slice that holds the starting cubie at the position the resolver
\* has of it: the cubie object kept at pointer-down (screen variant), the
\* cubies of the last render (3D variant).
C21_ResolvedOnReadPosition ==
  [][GestureResolves =>
       LET move == appended'[Len(appended')]
           pos == IF dragRef # NoDrag THEN dragRef.cubie.position
                  ELSE FindCubie(rCubies, StartCubieId).position
       IN Coord(pos, move.axis) = move.slice]_vars

\* C21 (as the claim states it). Resolved move turns the dragged cubie's
\* layer: whenever a gesture calls onManualMove(key), the cubie the gesture
\* started on is in the slice of MOVES[key]: its position in the cubie store
\* has position[move.axis] = move.slice.
C21_ResolvedMoveTurnsLayer ==
  [][GestureResolves =>
       LET move == appended'[Len(appended')]
       IN Coord(FindCubie(cubies, StartCubieId).position, move.axis) = move.slice]_vars

\* C22 (as the claim states it). 3D-normal resolver direction: when a
\* pointer-move with in-plane displacement v on a face with outward normal n
\* resolves to a move, the move's axis is a dominant axis of n x v, its slice
\* is the touched cubie's coordinate on that axis, its direction is the sign
\* of that component of n x v, and the quarter-turn carries the touched face
\* point along the drag: its displacement has a positive dot product with v.
C22_ResolverDirection ==
  [][\A v \in WorldVectors :
       (/\ HandlePointerMove3D(v)
        /\ appended' # appended
        /\ Dot3(dragStart.normal, v) = 0) =>
         LET move == appended'[Len(appended')]
             cross == CrossVectors(dragStart.normal, v)
             touched == FindCubie(rCubies, dragStart.cubieId)
             turned == Rotated(dragStart.point, move.axis, move.direction)
         IN /\ \A axis \in {"x", "y", "z"} :
                 Abs(Coord(cross, move.axis)) >= Abs(Coord(cross, axis))
            /\ move.slice = Coord(touched.position, move.axis)
            /\ move.direction = Sign(Coord(cross, move.axis))
            /\ Dot3(Sub3(turned, dragStart.point), v) > 0]_vars

\* C22, what the lookup does. The axis and the slice are as the claim says;
\* the direction looked up is the opposite of the sign of the component of
\* n x v, and the quarter-turn carries the touched point against the drag.
C22_ResolverAgainstDrag ==
  [][\A v \in WorldVectors :
       (/\ HandlePointerMove3D(v)
        /\ appended' # appended
        /\ Dot3(dragStart.normal, v) = 0) =>
         LET move == appended'[Len(appended')]
             cross == CrossVectors(dragStart.normal, v)
             touched == FindCubie(rCubies, dragStart.cubieId)
             turned == Rotated(dragStart.point, move.axis, move.direction)
         IN /\ \A axis \in {"x", "y", "z"} :
                 Abs(Coord(cross, move.axis)) >= Abs(Coord(cross, axis))
            /\ move.slice = Coord(touched.position, move.axis)
            /\ move.direction = -Sign(Coord(cross, move.axis))
            /\ Dot3(Sub3(turned, dragStart.point), v) < 0]_vars

\* C23. At most one move per gesture: a pointer handler calls onManualMove
\* only while a gesture is open, appends one move, and the same step closes
\* the gesture (3D variant: isDragging and dragStart cleared when a move
\* matches; screen variant: the drag record cleared at pointer-up), so that
\* no later pointer-move, pointer-up or pointer-leave of the gesture appends.
C23_OneMovePerGesture ==
  [][/\ \A v \in WorldVectors :
          (HandlePointerMove3D(v) /\ appended' # appended) =>
            /\ isDragging /\ dragStart # NoDrag
            /\ Len(appended') = Len(appended) + 1
            /\ ~isDragging' /\ dragStart' = NoDrag
     /\ \A offset \in ScreenOffsets : \A camera \in Cameras :
          (HandlePointerUpScreen(offset, camera) /\ appended' # appended) =>
            /\ dragRef # NoDrag
            /\ Len(appended') = Len(appended) + 1
            /\ dragRef' = NoDrag
     /\ (~GestureActive /\ appended' # appended) =>
          \/ \E moveKey \in ButtonKeys : ButtonMove(moveKey)
          \/ Scramble]_vars

\* a 3D gesture is open, a pointer-move of it resolves to a move and the queue
\* has room for it
C23_Witness ==
  /\ variant = "Cube3D"
  /\ isDragging
  /\ ~isAnimating
  /\ Len(appended) = 1
  /\ \E v \in WorldVectors : MatchedMove(rCubies, dragStart, v) # ""

\* C24. Scramble batch append: one scramble call is one queue update that
\* appends exactly 20 elements to the tail; the moves already queued keep
\* their order ahead of the batch, and every appended element is one of the
\* 12 moves of the table.
C24_ScrambleBatchAppend ==
  [][\A stream \in Streams :
       ScrambleCall(stream) =>
         /\ Len(moveQueue') = Len(moveQueue) + 20
         /\ SubSeq(moveQueue', 1, Len(moveQueue)) = moveQueue
         /\ \A i \in (Len(moveQueue) + 1)..Len(moveQueue') :
              \E k \in DOMAIN MOVES : moveQueue'[i] = MOVES[k]]_vars

\* a second scramble has put its 20 moves behind the 20 of a different first
\* one
C24_Witness ==
  /\ Len(moveQueue) = 40
  /\ SubSeq(moveQueue, 1, 20) # SubSeq(moveQueue, 21, 40)

\* C25 (as the claim states it). Scramble playback speed: while the batch of
\* 20 moves is played back with no other input, every frame that animates a
\* move advances its progress at the fast speed, 20 per second (delta is in
\* milliseconds and progress in 1/1000): a move still animating after the
\* frame has gained delta * 20, a move completed by it had reached 1 with it.
C25_PlaybackAllFast ==
  [][\A delta \in Deltas :
       (UseFrameScreen(delta) /\ (isAnimating \/ Len(rQueue) > 0)) =>
         LET before == IF isAnimating THEN moveProgress ELSE 0
         IN IF isAnimating'
            THEN moveProgress' = before + delta * 20
            ELSE before + delta * 20 >= 1000 /\ (before + delta * 6 >= 1000 => Len(rQueue) > 5)]_vars

\* C25, what the speed selection does. A frame animates at 20 per second
\* while the queue of the last render holds more than 5 moves and at 6 per
\* second, the speed of a single user-issued move, once it holds 5 or fewer.
C25_FastWhileDeep ==
  [][\A delta \in Deltas :
       (UseFrameScreen(delta) /\ (isAnimating \/ Len(rQueue) > 0)) =>
         LET before == IF isAnimating THEN moveProgress ELSE 0
             speed == IF Len(rQueue) > 5 THEN 20 ELSE 6
         IN IF isAnimating'
            THEN moveProgress' = before + delta * speed
            ELSE before + delta * speed >= 1000]_vars

\* the face each letter names: the axis and the slice of its layer
FaceLayers ==
  { <<"U1", "U2", "y", 1>>, <<"D1", "D2", "y", -1>>, <<"L1", "L2", "x", -1>>,
    <<"R1", "R2", "x", 1>>, <<"F1", "F2", "z", 1>>, <<"B1", "B2", "z", -1>> }

\* C26. Clockwise convention: for every face letter X the moves X1 and X2 turn
\* the layer of that face, X1 with direction equal to the negation of its
\* slice value and X2 with direction equal to its slice value, and the
\* buttons labelled cw and ccw are wired to X1 and X2; completing X1 turns the
\* positions of the layer by a quarter clockwise as seen from outside the
\* face (the right-handed rotation by -slice * 90 degrees about the axis):
\* completing U1 takes the cubie at (0, 1, 1) to (-1, 1, 0).
C26_ClockwiseConvention ==
  [][committed' # committed =>
       /\ \A face \in FaceLayers :
            /\ MOVES[face[1]].axis = face[3] /\ MOVES[face[1]].slice = face[4]
            /\ MOVES[face[2]].axis = face[3] /\ MOVES[face[2]].slice = face[4]
            /\ MOVES[face[1]].direction = -face[4]
            /\ MOVES[face[2]].direction = face[4]
            /\ [cw |-> face[1], ccw |-> face[2]] \in GROUPS
            /\ LastCommitted(committed') = MOVES[face[1]] =>
                 /\ Rewritten # {}
                 /\ \A i \in 1..Len(cubies) :
                      cubies[i].id \in Rewritten =>
                        cubies'[i].position = Rotated(cubies[i].position, face[3], -face[4])
       /\ LastCommitted(committed') = MOVES["U1"] =>
            \A i \in 1..Len(cubies) :
              cubies[i].position = [x |-> 0, y |-> 1, z |-> 1] =>
                cubies'[i].position = [x |-> -1, y |-> 1, z |-> 0]]_vars

\* U1 has completed once from the initial state: the cubie that started at
\* (0, 1, 1), id 17, is at (-1, 1, 0)
C26_Witness ==
  /\ committed = <<MOVES["U1"]>>
  /\ FindCubie(cubies, 17).position = [x |-> -1, y |-> 1, z |-> 0]
  /\ InitialOf(FindCubie(cubies, 17)).position = [x |-> 0, y |-> 1, z |-> 1]

\* C27, on one store. Started and completed on the same cubie store, the
\* commit on the ids snapshotted at the start and the commit on the slice
\* recomputed at the end give the same cubies.
C27_AgreeOnOneStore ==
  [][committed' # committed =>
       CompleteByIds(cubies, LastCommitted(committed'))
         = CommitBySlice(cubies, LastCommitted(committed'))]_vars

\* C27 (as the claim states it). The two implementations agree on logical
\* state: whenever the machine that snapshots the affected ids at the start of
\* a move (components/Cube3D.tsx) completes a move, the cubies it writes and
\* the queue it leaves are the ones the machine that recomputes the slice at
\* the finish (second Cube3D) writes and leaves for the same move on the same
\* state.
C27_ImplementationsAgree ==
  [][(variant = "Cube3D" /\ committed' # committed) =>
       /\ cubies' = CommitBySlice(cubies, LastCommitted(committed'))
       /\ moveQueue' = Slice1(moveQueue)]_vars

\* the number of non-zero coordinates: 3 corner, 2 edge, 1 face centre, 0 core
NonZeroCount(pos) ==
  (IF pos.x # 0 THEN 1 ELSE 0) + (IF pos.y # 0 THEN 1 ELSE 0) + (IF pos.z # 0 THEN 1 ELSE 0)

\* C28. Piece kind is preserved: in every reachable state every cubie has as
\* many non-zero position coordinates as it had at initialization; the core
\* cubie and the six face-centre cubies are at their initial positions, and
\* the core cubie has its initial rotation.
C28_PieceKindPreserved ==
  \A i \in 1..Len(cubies) :
    /\ cubies[i].id = InitialCubies[i].id
    /\ NonZeroCount(cubies[i].position) = NonZeroCount(InitialCubies[i].position)
    /\ NonZeroCount(InitialCubies[i].position) <= 1 =>
         cubies[i].position = InitialCubies[i].position
    /\ NonZeroCount(InitialCubies[i].position) = 0 =>
         cubies[i].rotation = InitialCubies[i].rotation

\* two turns about different axes are committed, a corner and an edge have left
\* their initial positions and a face centre has turned in place
C28_Witness ==
  /\ Len(committed) >= 2
  /\ committed[1].axis # committed[2].axis
  /\ \E i \in 1..Len(cubies) :
       /\ NonZeroCount(InitialCubies[i].position) = 3
       /\ cubies[i].position # InitialCubies[i].position
  /\ \E i \in 1..Len(cubies) :
       /\ NonZeroCount(InitialCubies[i].position) = 2
       /\ cubies[i].position # InitialCubies[i].position
  /\ \E i \in 1..Len(cubies) :
       /\ NonZeroCount(InitialCubies[i].position) = 1
       /\ cubies[i].rotation # InitialCubies[i].rotation

\* C29, on a rendered queue. A button that appends while the queue of the
\* last render is the queue of the state leaves at most 25 moves queued.
C29_BoundOnRenderedQueue ==
  [][(mounted /\ rQueue = moveQueue /\ appended' # appended) =>
       Len(moveQueue') <= 25]_vars

\* C29 (as the claim states it). Queue depth bound under button input: with
\* the mount scramble and the on-screen buttons as the only sources of moves,
\* the queue never holds more than 25 moves.
C29_QueueDepthBound == Len(moveQueue) <= 25

\* the table moves the redraw loop can leave with when lastAxis was chosen before
Available(lastAxis) == {k \in OwnKeys : MOVES[k].axis # lastAxis}

\* C30. Scramble generation terminates: whatever axis was chosen before, 8 of
\* the 12 table moves have a different axis (all 12 before the first choice),
\* and one of them can be drawn in every state of the redraw loop; under fair
\* draws every redraw loop is left, and the call that has started returns
\* after its 20th move, appending the 20 moves.
C30_ScrambleTerminates ==
  /\ [](/\ \A lastAxis \in Axes : Cardinality(Available(lastAxis)) = 8
        /\ Cardinality(Available("")) = 12
        /\ scrambleCall.pc = "while" =>
             \E key \in DrawnKeys : key \in Available(scrambleCall.lastAxis))
  /\ (scrambleCall.pc = "while") ~> (scrambleCall.pc = "for")
  /\ (scrambleCall.pc # "idle") ~> (scrambleCall.pc = "idle" /\ Len(appended) = 20)

\* the call has returned with 20 moves after a redraw: two moves of the batch
\* that follow each other have different axes, and a key was drawn that the
\* loop had to replace
C30_Witness ==
  /\ scrambleCall = NoCall
  /\ mounted
  /\ Len(moveQueue) = 20
  /\ \A n \in 1..19 : moveQueue[n].axis # moveQueue[n + 1].axis
  /\ moveQueue[1] = MOVES["U2"]
  /\ moveQueue[3] = MOVES["U1"]

\* the redraw loop is running on a key of the axis chosen last
C30_Redrawing ==
  /\ scrambleCall.pc = "while"
  /\ scrambleCall.i = 19
  /\ MOVES[scrambleCall.key].axis = scrambleCall.lastAxis

====
